---- MODULE Spec2Model ----
(***************************************************************************)
(* The resilient task-consumption and self-healing engine of               *)
(* devart-agent-template/sdk/agent_sdk.py (class AgentSDK): the queue      *)
(* consumer, its on_message handler, the self-healing executor, the        *)
(* solution ledger and shutdown, together with the broker and the HTTP     *)
(* collaborators they talk to.                                             *)
(*                                                                         *)
(* Threads: the embedding application's main thread calls start_consuming  *)
(* and stop_consuming; every start_consuming creates one consumer thread   *)
(* that runs consume() and, inside it, on_message for each delivery.       *)
(* Time is counted in ticks of 1/TicksPerMs millisecond, because           *)
(* time.time() * 1000 is a float while delayUntil is a whole number of     *)
(* milliseconds.                                                           *)
(***************************************************************************)
EXTENDS Integers, Sequences, FiniteSets, TLC

\* ------------------------------------------------------------------ bounds
MaxThreads == 2
MaxQueue == 2
MaxDeliveries == 2
MaxTime == 2
TicksPerMs == 2

\* ------------------------------------------------------- program constants
\* Line 128: basic_qos(prefetch_count=1).
PrefetchCount == 1

Threads == 1..MaxThreads

\* ---------------------------------------------------------------- payloads
\* A queue message body.  form "text": not valid JSON (the text is in
\* taskId); "object": a JSON mapping with the keys in `keys`; "scalar":
\* valid JSON that is not a mapping.
Body(form, keys, taskId, delayUntil) ==
    [form |-> form, keys |-> keys, taskId |-> taskId, delayUntil |-> delayUntil]

Payloads ==
    { Body("text", {}, "t1", 0),
      Body("object", {"taskId"}, "t1", 0),
      Body("object", {"taskId", "delayUntil"}, "t1", 1),
      Body("scalar", {}, "None", 0) }

LastErrors == {"stored error"}

KbAnswers == { <<>>, <<"s2", "s1">> }

TaskIds == {"t1", "None"}

\* ------------------------------------------------------------------- state
VARIABLES
    now,                \* time.time() * 1000, in ticks
    running,            \* self.running
    conn,               \* self.rabbitmq_connection: "none", "open", "closed"
    consumers,          \* consumer registrations on the channel (by thread)
    started,            \* number of consumer threads created so far
    mainPc,             \* position of the main thread
    stopped,            \* a stop_consuming call has returned since the last start
    queue,              \* ready copies of each body in the work queue
    unacked,            \* deliveries sent to a consumer and not yet settled
    pending,            \* the unacked deliveries on_message has not begun
    nextTag,            \* next delivery tag
    pc,                 \* position of each consumer thread
    cur,                \* locals of the delivery a thread is handling
    obs,                \* the thread whose handler is being recorded, or 0
    log,                \* what the recorded handler has done so far
    seen,               \* the ledger as it was when that handler was entered
    solution_attempts   \* self.solution_attempts

vars == << now, running, conn, consumers, started, mainPc, stopped, queue, unacked,
           pending, nextTag, pc, cur, obs, log, seen, solution_attempts >>

NoLedger == [t \in TaskIds |-> << >>]

brokerVars == << queue, unacked, pending, nextTag >>
mainVars == << running, conn, consumers, started, mainPc, stopped >>

\* ----------------------------------------------------------------- helpers
Ev(op, arg, out, n) == [op |-> op, arg |-> arg, out |-> out, n |-> n]

NoLocals ==
    [tag |-> 0, body |-> Body("text", {}, "None", 0), remaining_delay |-> 0,
     last_error |-> "Unknown error"]

\* int(x) of Python for x = numer / denom, denom > 0: truncation toward zero.
PyInt(numer, denom) ==
    IF numer >= 0 THEN numer \div denom ELSE 0 - ((0 - numer) \div denom)

\* Every unacknowledged delivery goes back to the queue (the broker's
\* behaviour when the channel or connection closes).
RequeueAll(q, ds) ==
    [b \in Payloads |-> q[b] + Cardinality({d \in ds : d.body = b})]

\* The handler of thread c has done es (recorded when c is the recorded one).
Emit(c, es) == log' = IF obs = c THEN log \o es ELSE log
Goto(c, p) == pc' = [pc EXCEPT ![c] = p]

\* The locals of thread c's handler go out of scope.
Forget(c) ==
    /\ cur' = [cur EXCEPT ![c] = NoLocals]
    /\ obs' = IF obs = c THEN 0 ELSE obs
    /\ log' = IF obs = c THEN <<>> ELSE log
    /\ seen' = IF obs = c THEN NoLedger ELSE seen

\* -------------------------------------------------------------------- Init
Init ==
    /\ now = 0
    /\ running = FALSE
    /\ conn = "none"
    /\ consumers = {}
    /\ started = 0
    /\ mainPc = "idle"
    /\ stopped = FALSE
    /\ \E S \in SUBSET Payloads :
          /\ Cardinality(S) <= MaxQueue
          /\ queue = [b \in Payloads |-> IF b \in S THEN 1 ELSE 0]
    /\ unacked = {}
    /\ pending = {}
    /\ nextTag = 1
    /\ pc = [c \in Threads |-> "new"]
    /\ cur = [c \in Threads |-> NoLocals]
    /\ obs = 0
    /\ log = <<>>
    /\ seen = NoLedger
    /\ solution_attempts = NoLedger

\* ------------------------------------------------------------------- clock
Tick ==
    /\ now < MaxTime
    /\ now' = now + 1
    /\ UNCHANGED << running, conn, consumers, started, mainPc, stopped, queue, unacked,
                    pending, nextTag, pc, cur, obs, log, seen, solution_attempts >>

\* ------------------------------------------------------------- main thread
\* A start_consuming that connects whenever the connection is not open.
StartConsuming_Reconnects ==
    /\ mainPc = "idle"
    /\ started < MaxThreads
    /\ conn # "open"
    /\ conn' = "open"
    /\ started' = started + 1
    /\ stopped' = FALSE
    /\ pc' = [pc EXCEPT ![started + 1] = "start"]
    /\ UNCHANGED << now, running, consumers, mainPc, brokerVars, cur, obs, log,
                    seen, solution_attempts >>

\* start_consuming: _connect_to_rabbitmq connects only while
\* rabbitmq_connection is unset, then a new consumer thread is started.
StartConsuming ==
    /\ mainPc = "idle"
    /\ started < MaxThreads
    /\ conn # "open"
    /\ conn' = IF conn = "none" THEN "open" ELSE conn
    /\ started' = started + 1
    /\ stopped' = FALSE
    /\ pc' = [pc EXCEPT ![started + 1] = "start"]
    /\ UNCHANGED << now, running, consumers, mainPc, brokerVars, cur, obs, log,
                    seen, solution_attempts >>

\* start_consuming called again while the connection of an earlier call is
\* open: _connect_to_rabbitmq does nothing, and one more consumer thread is
\* started on the same channel.
StartConsumingAgain ==
    /\ mainPc = "idle"
    /\ started < MaxThreads
    /\ conn = "open"
    /\ started' = started + 1
    /\ stopped' = FALSE
    /\ pc' = [pc EXCEPT ![started + 1] = "start"]
    /\ UNCHANGED << now, running, conn, consumers, mainPc, brokerVars, cur, obs,
                    log, seen, solution_attempts >>

\* stop_consuming, line 147: the running flag is cleared.
StopFlag ==
    /\ mainPc = "idle"
    /\ running' = FALSE
    /\ mainPc' = "stopping"
    /\ UNCHANGED << now, conn, stopped, consumers, started, brokerVars, pc, cur, obs, log,
                    seen, solution_attempts >>

\* stop_consuming, lines 148-159: the channel's consumers are cancelled and
\* the connection is closed if open (the broker requeues what is
\* unacknowledged).
StopClose ==
    /\ mainPc = "stopping"
    /\ mainPc' = "joining"
    /\ IF conn = "open"
         THEN /\ conn' = "closed"
              /\ consumers' = {}
              /\ queue' = RequeueAll(queue, unacked)
              /\ unacked' = {}
              /\ pending' = {}
         ELSE UNCHANGED << conn, consumers, queue, unacked, pending >>
    /\ UNCHANGED << now, running, started, stopped, nextTag, pc, cur, obs, log,
                    seen, solution_attempts >>

\* The thread self.consumer_thread refers to: the one started last.
ConsumerThreadAlive == started > 0 /\ pc[started] \notin {"new", "dead"}

\* A join without timeout: it returns only once the consumer thread ended.
JoinWaitsForThread ==
    /\ mainPc = "joining"
    /\ ~ConsumerThreadAlive
    /\ mainPc' = "idle"
    /\ stopped' = TRUE
    /\ UNCHANGED << now, running, conn, consumers, started, brokerVars, pc, cur,
                    obs, log, seen, solution_attempts >>

\* stop_consuming, lines 158-159: join(timeout=5) returns when the consumer
\* thread has ended or the timeout has passed, and stop_consuming returns.
JoinReturns ==
    /\ mainPc = "joining"
    /\ mainPc' = "idle"
    /\ stopped' = TRUE
    /\ UNCHANGED << now, running, conn, consumers, started, brokerVars, pc, cur,
                    obs, log, seen, solution_attempts >>

\* --------------------------------------------------------- consumer thread
\* consume(), line 51.
SetRunning(c) ==
    /\ pc[c] = "start"
    /\ running' = TRUE
    /\ Goto(c, "setup")
    /\ UNCHANGED << now, conn, consumers, started, mainPc, stopped, brokerVars, cur, obs, log,
                    seen, solution_attempts >>

\* consume(), lines 127-129: basic_qos and basic_consume on the shared
\* channel.  They are outside the try of line 131: on a closed channel the
\* exception ends the thread without the finally clause.
RegisterConsumer(c) ==
    /\ pc[c] = "setup"
    /\ IF conn = "open"
         THEN /\ consumers' = consumers \cup {c}
              /\ Goto(c, "wait")
         ELSE /\ Goto(c, "dead")
              /\ UNCHANGED consumers
    /\ UNCHANGED << now, running, conn, started, mainPc, stopped, brokerVars, cur, obs, log,
                    seen, solution_attempts >>

\* consume(), lines 129-136, on a channel another thread is consuming on:
\* the connection is not thread-safe, and besides running a second loop (the
\* case RegisterConsumer covers) channel.start_consuming() can refuse to
\* run, which takes the thread to its finally clause.
ConsumeReentrant(c) ==
    /\ pc[c] = "setup"
    /\ conn = "open"
    /\ \E o \in Threads \ {c} : pc[o] \notin {"new", "start", "setup", "finally", "dead"}
    /\ consumers' = consumers \cup {c}
    /\ Goto(c, "finally")
    /\ UNCHANGED << now, running, conn, started, mainPc, stopped, brokerVars, cur, obs, log,
                    seen, solution_attempts >>

\* The broker sends a ready message to a consumer that holds fewer than
\* prefetch_count unacknowledged deliveries.
BrokerDeliver(c) ==
    /\ conn = "open"
    /\ c \in consumers
    /\ nextTag <= MaxDeliveries
    /\ Cardinality({d \in unacked : d.cons = c}) < PrefetchCount
    /\ \E b \in Payloads :
          /\ queue[b] > 0
          /\ queue' = [queue EXCEPT ![b] = @ - 1]
          /\ LET d == [tag |-> nextTag, body |-> b, cons |-> c]
             IN  /\ unacked' = unacked \cup {d}
                 /\ pending' = pending \cup {d}
    /\ nextTag' = nextTag + 1
    /\ UNCHANGED << now, mainVars, pc, cur, obs, log, seen, solution_attempts >>

\* channel.start_consuming() returns once the consumers are cancelled and
\* raises once the connection is closed; either way consume() reaches its
\* finally clause (lines 131-136).
ConsumeLoopExit(c) ==
    /\ pc[c] = "wait"
    /\ (c \notin consumers \/ conn # "open")
    /\ Goto(c, "finally")
    /\ UNCHANGED << now, mainVars, brokerVars, cur, obs, log, seen, solution_attempts >>

\* consume(), lines 137-138: close the connection if it is still open.
ConsumeFinally(c) ==
    /\ pc[c] = "finally"
    /\ Goto(c, "dead")
    /\ IF conn = "open"
         THEN /\ conn' = "closed"
              /\ consumers' = {}
              /\ queue' = RequeueAll(queue, unacked)
              /\ unacked' = {}
              /\ pending' = {}
         ELSE UNCHANGED << conn, consumers, queue, unacked, pending >>
    /\ Forget(c)
    /\ UNCHANGED << now, running, started, mainPc, stopped, nextTag, solution_attempts >>

\* -------------------------------------------------------------- on_message
\* A text that json.loads rejects is treated as a failure.
DecodeEnvelope_TextFails(body) ==
    IF body.form = "object"
      THEN [raised |-> FALSE, json |-> TRUE,
            task_id |-> IF "taskId" \in body.keys THEN body.taskId ELSE "None",
            has_delay |-> "delayUntil" \in body.keys,
            delay_until |-> IF "delayUntil" \in body.keys THEN body.delayUntil ELSE 0]
      ELSE [raised |-> TRUE, json |-> body.form # "text", task_id |-> "None",
            has_delay |-> FALSE, delay_until |-> 0]

\* Lines 66-75 and 98-100: body.decode, json.loads, message_obj.get.
\* A text that is not JSON is the task id; a JSON value that is not a
\* mapping has no .get (AttributeError).
DecodeEnvelope(body) ==
    CASE body.form = "text" ->
           [raised |-> FALSE, json |-> FALSE, task_id |-> body.taskId,
            has_delay |-> FALSE, delay_until |-> 0]
      [] body.form = "object" ->
           [raised |-> FALSE, json |-> TRUE,
            task_id |-> IF "taskId" \in body.keys THEN body.taskId ELSE "None",
            has_delay |-> "delayUntil" \in body.keys,
            delay_until |-> IF "delayUntil" \in body.keys THEN body.delayUntil ELSE 0]
      [] OTHER ->
           [raised |-> TRUE, json |-> TRUE, task_id |-> "None",
            has_delay |-> FALSE, delay_until |-> 0]

TaskIdOf(c) == DecodeEnvelope(cur[c].body).task_id

\* Line 82: delay_until and delay_until > time.time() * 1000.
DelayInFuture(has_delay, delay_until, t) ==
    has_delay /\ delay_until # 0 /\ delay_until * TicksPerMs > t

\* Line 84: int(delay_until - time.time() * 1000).
RemainingDelay(delay_until, t) ==
    PyInt(delay_until * TicksPerMs - t, TicksPerMs)

\* 1 when the delivery thread c handles carries a delayUntil that is still
\* in the future at this moment, 0 otherwise.
Early(c) ==
    LET m == DecodeEnvelope(cur[c].body)
    IN  IF DelayInFuture(m.has_delay, m.delay_until, now) THEN 1 ELSE 0

\* basic_ack / basic_nack of thread c's delivery on an open channel: the
\* delivery is settled, and goes back to the queue when requeue is set.
Settle(c, requeue) ==
    /\ unacked' = {d \in unacked : d.tag # cur[c].tag}
    /\ queue' = IF requeue THEN [queue EXCEPT ![cur[c].body] = @ + 1] ELSE queue
    /\ UNCHANGED << pending, nextTag >>

\* The imports with opentelemetry's trace module among them.
ImportedNames_WithTrace ==
    {"os", "requests", "time", "pika", "json", "threading", "Callable", "Dict",
     "Any", "List", "wraps", "get_tracer", "PikaInstrumentor", "trace"}

\* Lines 1-10: the names the module imports.
ImportedNames ==
    {"os", "requests", "time", "pika", "json", "threading", "Callable", "Dict",
     "Any", "List", "wraps", "get_tracer", "PikaInstrumentor"}

\* Line 119: an exception reached the except clause of on_message.
Caught == Ev("except", "Exception", "caught", 0)

\* Lines 119-125: the handler of an exception raised while the delivery is
\* handled, after the handler has done evs.  Line 123 evaluates
\* trace.Status(...): when the name trace is not bound that raises NameError
\* before the basic_nack of line 125, and the NameError leaves on_message
\* and channel.start_consuming() and is caught at line 133.
Excepted(c, evs) ==
    IF "trace" \in ImportedNames
      THEN IF conn = "open"
             THEN /\ Settle(c, TRUE)
                  /\ Emit(c, evs \o << Caught, Ev("basic_nack", "requeue", "ok", 0) >>)
                  /\ Goto(c, "done")
             ELSE /\ Emit(c, evs \o << Caught, Ev("basic_nack", "requeue", "raise", 0) >>)
                  /\ Goto(c, "finally")
                  /\ UNCHANGED brokerVars
      ELSE /\ Emit(c, evs \o << Caught, Ev("trace.Status", "trace", "NameError", 0) >>)
           /\ Goto(c, "finally")
           /\ UNCHANGED brokerVars

\* A basic_ack or basic_nack that ends the handler: it settles the delivery
\* on an open channel and raises on a closed one.
BrokerCall(c, evs, call, arg, requeue) ==
    IF conn = "open"
      THEN /\ Settle(c, requeue)
           /\ Emit(c, evs \o << Ev(call, arg, "ok", 0) >>)
           /\ Goto(c, "done")
      ELSE Excepted(c, evs \o << Ev(call, arg, "raise", 0) >>)

\* Line 53: channel.start_consuming() hands a delivery to on_message.
Dispatch(c) ==
    /\ pc[c] = "wait"
    /\ \E d \in pending :
          /\ d.cons = c
          /\ pending' = pending \ {d}
          /\ cur' = [cur EXCEPT ![c] = [NoLocals EXCEPT !.tag = d.tag, !.body = d.body]]
    /\ Goto(c, "entered")
    /\ UNCHANGED << now, mainVars, queue, unacked, nextTag, obs, log, seen, solution_attempts >>

\* The handler that thread c has just entered becomes the recorded one.
Observe(c) ==
    /\ pc[c] = "entered"
    /\ obs = 0
    /\ obs' = c
    /\ seen' = solution_attempts
    /\ UNCHANGED << now, mainVars, brokerVars, pc, cur, log, solution_attempts >>

\* The handler goes on whatever the running flag says.
CheckRunning_IgnoresFlag(c) ==
    /\ pc[c] = "entered"
    /\ Emit(c, << Ev("deliver", "", IF running THEN "handled" ELSE "skipped", 0) >>)
    /\ Goto(c, "decode")
    /\ UNCHANGED << now, mainVars, brokerVars, cur, obs, seen, solution_attempts >>

\* Lines 61-62: the handler returns at once when running is false, leaving
\* the delivery unacknowledged.
CheckRunning(c) ==
    /\ pc[c] = "entered"
    /\ Emit(c, << Ev("deliver", "", IF running THEN "handled" ELSE "skipped", 0) >>)
    /\ Goto(c, IF running THEN "decode" ELSE "done")
    /\ UNCHANGED << now, mainVars, brokerVars, cur, obs, seen, solution_attempts >>

\* The executor is called whatever get_task_details returned.
AfterResolve_AlwaysExecutes(task) == "cb1"

\* Lines 105 and 115: with a task the executor is called (the callback
\* starts), without one the delivery is nacked.
AfterResolve(task) == IF task THEN "cb1" ELSE "nack_notask"

\* Lines 103-105 and 115-117 with get_task_details (lines 161-173): a 200
\* response is the task; another status or a RequestException gives None;
\* any other exception of the HTTP call propagates to line 119.
ResolveThen(c, evs) ==
    \/ \E le \in LastErrors :
          /\ cur' = [cur EXCEPT ![c].last_error = le]
          /\ Emit(c, evs \o << Ev("get_task_details", TaskIdOf(c), "task", Early(c)) >>)
          /\ Goto(c, AfterResolve(TRUE))
          /\ UNCHANGED brokerVars
    \/ /\ Emit(c, evs \o << Ev("get_task_details", TaskIdOf(c), "none", Early(c)) >>)
       /\ Goto(c, AfterResolve(FALSE))
       /\ UNCHANGED << cur, brokerVars >>
    \/ /\ Excepted(c, evs \o << Ev("get_task_details", TaskIdOf(c), "raise", Early(c)) >>)
       /\ UNCHANGED cur

\* An envelope that carries a delayUntil is republished whatever the clock
\* says.
Decode_AlwaysRepublishes(c) ==
    /\ pc[c] = "decode"
    /\ LET m == DecodeEnvelope(cur[c].body)
       IN  IF m.raised
             THEN /\ Excepted(c, << Ev("decode", "", "raise", 0) >>)
                  /\ UNCHANGED cur
             ELSE IF m.json /\ m.has_delay
                    THEN /\ cur' = [cur EXCEPT ![c].remaining_delay = 1]
                         /\ Emit(c, << Ev("decode", m.task_id, "future", 0) >>)
                         /\ Goto(c, "publish")
                         /\ UNCHANGED brokerVars
                    ELSE ResolveThen(c, << Ev("decode", m.task_id, "due", 0) >>)
    /\ UNCHANGED << now, mainVars, obs, seen, solution_attempts >>

\* Lines 64-82 and 98-104: the envelope is decoded and the clock read; a
\* delivery that is due goes on to task resolution.
Decode(c) ==
    /\ pc[c] = "decode"
    /\ LET m == DecodeEnvelope(cur[c].body)
       IN  IF m.raised
             THEN /\ Excepted(c, << Ev("decode", "", "raise", 0) >>)
                  /\ UNCHANGED cur
             ELSE IF m.json /\ DelayInFuture(m.has_delay, m.delay_until, now)
                    THEN /\ Emit(c, << Ev("decode", m.task_id, "future", 0) >>)
                         /\ Goto(c, "remaining")
                         /\ UNCHANGED << cur, brokerVars >>
                    ELSE ResolveThen(c, << Ev("decode", m.task_id, "due", 0) >>)
    /\ UNCHANGED << now, mainVars, obs, seen, solution_attempts >>

\* Lines 84-85: the clock is read a second time; without a positive
\* remaining delay the delivery goes on to task resolution.
ComputeRemaining(c) ==
    /\ pc[c] = "remaining"
    /\ LET r == RemainingDelay(DecodeEnvelope(cur[c].body).delay_until, now)
       IN  IF r > 0
             THEN /\ cur' = [cur EXCEPT ![c].remaining_delay = r]
                  /\ Emit(c, << Ev("remaining", "", "positive", r) >>)
                  /\ Goto(c, "publish")
                  /\ UNCHANGED brokerVars
             ELSE ResolveThen(c, << Ev("remaining", "", "elapsed", r) >>)
    /\ UNCHANGED << now, mainVars, obs, seen, solution_attempts >>

\* Lines 87-95: basic_publish of the same body to the same queue with the
\* x-delay header; it raises on a closed channel.
Republish(c) ==
    /\ pc[c] = "publish"
    /\ IF conn = "open"
         THEN /\ queue' = [queue EXCEPT ![cur[c].body] = @ + 1]
              /\ Emit(c, << Ev("basic_publish", "x-delay", "ok", cur[c].remaining_delay) >>)
              /\ Goto(c, "nack_delay")
              /\ UNCHANGED << unacked, pending, nextTag >>
         ELSE Excepted(c, << Ev("basic_publish", "x-delay", "raise", cur[c].remaining_delay) >>)
    /\ UNCHANGED << now, mainVars, cur, obs, seen, solution_attempts >>

\* Lines 96-97: basic_nack(requeue=False) of the original, then return.
NackDelayed(c) ==
    /\ pc[c] = "nack_delay"
    /\ BrokerCall(c, << >>, "basic_nack", "drop", FALSE)
    /\ UNCHANGED << now, mainVars, cur, obs, seen, solution_attempts >>

\* Line 118: no task details, basic_nack(requeue=True).
NackUnresolved(c) ==
    /\ pc[c] = "nack_notask"
    /\ BrokerCall(c, << >>, "basic_nack", "requeue", TRUE)
    /\ UNCHANGED << now, mainVars, cur, obs, seen, solution_attempts >>

\* ---------------------------------------------------- self-healing executor
\* One way a stretch of the executor can go: what it did, the ledger it
\* leaves, and how it ends ("true" / "false": the value returned; "raise":
\* an exception leaves it; "cb2": the callback is invoked again).
Way(evs, ledger, exit) == [evs |-> evs, ledger |-> ledger, exit |-> exit]

Then(evs, w) == Way(evs \o w.evs, w.ledger, w.exit)

ExecutorEnd(out) == Ev("executor", "", out, 0)

\* Line 327: best_solution = solutions[0].
BestSolution(solutions) == solutions[1]

Content(solution_id) == IF solution_id = "s1" THEN "fix one" ELSE "fix two"

\* The new attempt replaces the task's entry.
RecordAttempt_Replaces(ledger, task_id, solution_id, t) ==
    [ledger EXCEPT ![task_id] =
        << [solution_id |-> solution_id, timestamp |-> t,
            content |-> Content(solution_id)] >>]

\* apply_solution, lines 233-241: the attempt appended to the task's entry.
RecordAttempt(ledger, task_id, solution_id, t) ==
    [ledger EXCEPT ![task_id] =
        Append(@, [solution_id |-> solution_id, timestamp |-> t,
                   content |-> Content(solution_id)])]

\* The callback is invoked again whatever apply_solution returned.
AfterApply_AlwaysRetries(applied) == "cb2"

\* Lines 331 and 344-346: the callback is invoked again only when
\* apply_solution returned a true value; otherwise False is returned.
AfterApply(applied) == IF applied THEN "cb2" ELSE "false"

\* apply_solution (lines 230-252) with _report_solution_application (lines
\* 254-268): the attempt is recorded, the report is sent (it may succeed,
\* fail with a RequestException, or raise something else), True is returned.
ApplySolution(ledger, task_id, solution, t) ==
    { Way(<< Ev("apply_solution", solution, out, 1) >>,
          RecordAttempt(ledger, task_id, solution, t),
          IF out = "raise" THEN "raise" ELSE AfterApply(TRUE)) :
        out \in {"ok", "fail", "raise"} }

\* apply_solution replaced by a collaborator that reports failure, as the
\* tests patch it: nothing is recorded and line 331 takes its else branch.
ApplySolutionPatched(ledger, task_id, solution, t) ==
    { Way(<< Ev("apply_solution", solution, "false", 0) >>, ledger, AfterApply(FALSE)) }

\* The callback is invoked again although there is nothing to apply.
HealWith_RetriesAnyway(solutions, ledger, task_id, t) ==
    IF solutions = <<>>
      THEN { [evs |-> << >>, ledger |-> ledger, exit |-> "cb2"] }
      ELSE { [evs |-> << >>, ledger |-> ledger, exit |-> "false"] }

\* Lines 323-349, up to the second callback invocation: nothing to apply
\* for an empty list, otherwise the first solution is applied.
HealWith(solutions, ledger, task_id, t) ==
    IF solutions = <<>>
      THEN { Way(<< >>, ledger, "false") }
      ELSE ApplySolution(ledger, task_id, BestSolution(solutions), t)
             \cup ApplySolutionPatched(ledger, task_id, BestSolution(solutions), t)

\* _attempt_self_healing, lines 315-349, up to the second callback
\* invocation, with query_knowledge_base (lines 214-228): the text queried
\* is task.get('last_error', 'Unknown error'); a RequestException gives [].
AttemptSelfHealing(ledger, task_id, last_error, t) ==
    UNION { { Then(<< Ev("query", last_error, "ok", Len(ans)) >>, w) :
                w \in HealWith(ans, ledger, task_id, t) } : ans \in KbAnswers }
      \cup { Then(<< Ev("query", last_error, "fail", 0) >>, w) :
                w \in HealWith(<< >>, ledger, task_id, t) }
      \cup { Way(<< Ev("query", last_error, "raise", 0) >>, ledger, "raise") }

\* Lines 294-302: the except clause of the executor; report_error (lines
\* 202-212) may succeed, fail with a RequestException, or raise.
ExceptClause(ledger, task_id, last_error, t, error_message) ==
    UNION { { Then(<< Ev("report_error", error_message, out, 0) >>, w) :
                w \in AttemptSelfHealing(ledger, task_id, last_error, t) }
            : out \in {"ok", "fail"} }
      \cup { Way(<< Ev("report_error", error_message, "raise", 0) >>, ledger, "raise") }

\* Line 293 is inside the try of line 284: an exception that leaves
\* _attempt_self_healing there is caught by line 294.
HealInsideTry(ledger, task_id, last_error, t) ==
    UNION { IF w.exit = "raise"
              THEN { Then(w.evs, x) :
                       x \in ExceptClause(w.ledger, task_id, last_error, t, "healing error") }
              ELSE { w }
            : w \in AttemptSelfHealing(ledger, task_id, last_error, t) }

\* _execute_task_with_self_healing, lines 281-302, up to the second
\* callback invocation.
ExecuteUntilRetry(ledger, task_id, last_error, t) ==
    { Way(<< Ev("callback", "first", "true", 0) >>, ledger, "true") }
      \cup { Then(<< Ev("callback", "first", "false", 0) >>, w) :
                w \in HealInsideTry(ledger, task_id, last_error, t) }
      \cup { Then(<< Ev("callback", "first", "raise", 0) >>, w) :
                w \in ExceptClause(ledger, task_id, last_error, t, "callback error") }

\* Lines 333-343: the value returned after the second callback invocation.
RetryResult(out) == out = "true"

\* The value _execute_task_with_self_healing returned to line 107, read off
\* the record of a handler.
ExecutorResult(l) ==
    LET I == {i \in 1..Len(l) : l[i].op = "executor"}
    IN  IF I = {} THEN "none" ELSE l[CHOOSE i \in I : \A j \in I : j <= i].out

\* A failed execution is acknowledged all the same.
AckCall_AcksFailure(success) == "basic_ack"

\* Lines 109-114: basic_ack on success, basic_nack(requeue=True) otherwise.
AckCall(success) == IF success THEN "basic_ack" ELSE "basic_nack"

\* Lines 107-114: the executor returned success.
AfterExecutor(c, evs, success) ==
    LET call == AckCall(success)
    IN  BrokerCall(c, evs \o << ExecutorEnd(IF success THEN "true" ELSE "false") >>,
                   call, IF call = "basic_ack" THEN "" ELSE "requeue",
                   call = "basic_nack")

\* Lines 107-114 and 284-331: the first callback invocation ends; on failure
\* the executor reports, queries and applies until it invokes the callback
\* again, returns or raises.
FirstCallbackReturns(c) ==
    /\ pc[c] = "cb1"
    /\ \E w \in ExecuteUntilRetry(solution_attempts, TaskIdOf(c), cur[c].last_error, now) :
          /\ solution_attempts' = w.ledger
          /\ CASE w.exit = "cb2" ->
                    /\ Emit(c, w.evs)
                    /\ Goto(c, "cb2")
                    /\ UNCHANGED brokerVars
               [] w.exit = "raise" ->
                    Excepted(c, w.evs \o << ExecutorEnd("raise") >>)
               [] OTHER ->
                    AfterExecutor(c, w.evs, w.exit = "true")
    /\ UNCHANGED << now, mainVars, cur, obs, seen >>

\* Lines 107-114 and 333-343: the second callback invocation ends, the
\* executor returns.
SecondCallbackReturns(c) ==
    /\ pc[c] = "cb2"
    /\ \E out \in {"true", "false", "raise"} :
          AfterExecutor(c, << Ev("callback", "second", out, 0) >>, RetryResult(out))
    /\ UNCHANGED << now, mainVars, cur, obs, seen, solution_attempts >>

\* on_message returns to channel.start_consuming(), which waits for the next
\* delivery; the handler's locals go out of scope.
Return(c) ==
    /\ pc[c] = "done"
    /\ Goto(c, "wait")
    /\ Forget(c)
    /\ UNCHANGED << now, mainVars, brokerVars, solution_attempts >>

\* ------------------------------------------ ArchitectureRefactoringAgentSDK
\* The class has the connection, consumer thread and stop_consuming code of
\* AgentSDK (lines 23-45 and 77-107 of its agent_sdk.py) and an on_message
\* of its own (lines 47-75), without delay handling and without the
\* self-healing executor.

\* Lines 53-55: body.decode, json.loads, task_data.get('taskId').  A text
\* that is not JSON makes json.loads raise, a JSON value that is not a
\* mapping has no .get.
ArchDecodeEnvelope(body) ==
    IF body.form = "object"
      THEN [raised |-> FALSE,
            task_id |-> IF "taskId" \in body.keys THEN body.taskId ELSE "None"]
      ELSE [raised |-> TRUE, task_id |-> "None"]

\* Lines 72-75: the except clause of on_message issues
\* basic_nack(requeue=True); on a closed channel the call raises and the
\* exception leaves on_message and channel.start_consuming().
ArchExcepted(c, evs) ==
    IF conn = "open"
      THEN /\ Settle(c, TRUE)
           /\ Emit(c, evs \o << Caught, Ev("basic_nack", "requeue", "ok", 0) >>)
           /\ Goto(c, "done")
      ELSE /\ Emit(c, evs \o << Caught, Ev("basic_nack", "requeue", "raise", 0) >>)
           /\ Goto(c, "finally")
           /\ UNCHANGED brokerVars

\* Lines 64, 66 and 70: a basic_ack or basic_nack inside the try of line 51;
\* it settles the delivery on an open channel, and on a closed one it
\* raises into the except clause of line 72.
ArchBrokerCall(c, evs, call, arg, requeue) ==
    IF conn = "open"
      THEN /\ Settle(c, requeue)
           /\ Emit(c, evs \o << Ev(call, arg, "ok", 0) >>)
           /\ Goto(c, "done")
      ELSE ArchExcepted(c, evs \o << Ev(call, arg, "raise", 0) >>)

\* Lines 51-59 with get_analysis_task_details (lines 109-122): the payload
\* is decoded and the task fetched; a 200 response is the task, another
\* status or a RequestException gives None, any other exception of the
\* HTTP call propagates to line 72.
ArchResolve(c) ==
    /\ pc[c] = "decode"
    /\ LET m == ArchDecodeEnvelope(cur[c].body)
           Get(out) == Ev("get_analysis_task_details", m.task_id, out, 0)
       IN  IF m.raised
             THEN ArchExcepted(c, << Ev("decode", "", "raise", 0) >>)
             ELSE \/ /\ Emit(c, << Ev("decode", m.task_id, "ok", 0), Get("task") >>)
                     /\ Goto(c, "cb1")
                     /\ UNCHANGED brokerVars
                  \/ /\ Emit(c, << Ev("decode", m.task_id, "ok", 0), Get("none") >>)
                     /\ Goto(c, "nack_notask")
                     /\ UNCHANGED brokerVars
                  \/ ArchExcepted(c, << Ev("decode", m.task_id, "ok", 0), Get("raise") >>)
    /\ UNCHANGED << now, mainVars, cur, obs, seen, solution_attempts >>

\* Lines 67-70: no task details, basic_nack(requeue=True).
ArchNackUnresolved(c) ==
    /\ pc[c] = "nack_notask"
    /\ ArchBrokerCall(c, << >>, "basic_nack", "requeue", TRUE)
    /\ UNCHANGED << now, mainVars, cur, obs, seen, solution_attempts >>

\* Lines 61-66: the callback ends; basic_ack when it returned a true value,
\* basic_nack(requeue=True) when it returned a false one, the except clause
\* when it raised.
ArchCallbackReturns(c) ==
    /\ pc[c] = "cb1"
    /\ \/ ArchBrokerCall(c, << Ev("callback", "first", "true", 0) >>,
                         "basic_ack", "", FALSE)
       \/ ArchBrokerCall(c, << Ev("callback", "first", "false", 0) >>,
                         "basic_nack", "requeue", TRUE)
       \/ ArchExcepted(c, << Ev("callback", "first", "raise", 0) >>)
    /\ UNCHANGED << now, mainVars, cur, obs, seen, solution_attempts >>

\* -------------------------------------------------------------------- Next
\* The steps of the program, start_consuming on an open connection aside.
Step ==
    \/ Tick
    \/ StartConsuming
    \/ StopFlag
    \/ StopClose
    \/ JoinReturns
    \/ \E c \in Threads :
          \/ SetRunning(c)
          \/ RegisterConsumer(c)
          \/ BrokerDeliver(c)
          \/ ConsumeLoopExit(c)
          \/ ConsumeFinally(c)
          \/ Dispatch(c)
          \/ CheckRunning(c)
          \/ Decode(c)
          \/ ComputeRemaining(c)
          \/ Republish(c)
          \/ NackDelayed(c)
          \/ FirstCallbackReturns(c)
          \/ SecondCallbackReturns(c)
          \/ NackUnresolved(c)
          \/ Return(c)

\* One consumer at a time (start_consuming is called again only after
\* stop_consuming); the handling of any one delivery is recorded.
Next == Step \/ \E c \in Threads : Observe(c)

Spec == Init /\ [][Next]_vars

\* start_consuming and stop_consuming in any sequence, with up to MaxThreads
\* consumer threads on the channel; nothing is recorded.
NextThreads ==
    \/ Step
    \/ StartConsumingAgain
    \/ \E c \in Threads : ConsumeReentrant(c)

SpecThreads == Init /\ [][NextThreads]_vars

\* A consumer that is never stopped, on a queue that holds one envelope with
\* a delayUntil: the clock advances, the broker delivers what is ready, and
\* the consumer thread keeps taking its steps.
DelayedBody == Body("object", {"taskId", "delayUntil"}, "t1", 1)

InitDelay ==
    /\ Init
    /\ \A b \in Payloads : queue[b] = IF b = DelayedBody THEN 1 ELSE 0

NextDelay ==
    \/ Tick
    \/ StartConsuming
    \/ \E c \in Threads :
          \/ SetRunning(c)
          \/ RegisterConsumer(c)
          \/ BrokerDeliver(c)
          \/ ConsumeFinally(c)
          \/ Dispatch(c)
          \/ Observe(c)
          \/ CheckRunning(c)
          \/ Decode(c)
          \/ ComputeRemaining(c)
          \/ Republish(c)
          \/ NackDelayed(c)
          \/ FirstCallbackReturns(c)
          \/ SecondCallbackReturns(c)
          \/ NackUnresolved(c)
          \/ Return(c)

FairDelay ==
    /\ WF_vars(Tick)
    /\ \A c \in Threads :
          /\ WF_vars(BrokerDeliver(c))
          /\ WF_vars(Dispatch(c))
          /\ WF_vars(CheckRunning(c))
          /\ WF_vars(Decode(c))
          /\ WF_vars(ComputeRemaining(c))
          /\ WF_vars(Republish(c))
          /\ WF_vars(NackDelayed(c))
          /\ WF_vars(Return(c))

SpecDelay == InitDelay /\ [][NextDelay]_vars /\ FairDelay

\* ArchitectureRefactoringAgentSDK: start_consuming, its consumer thread and
\* on_message, and stop_consuming; the handling of any one delivery is
\* recorded.
NextArch ==
    \/ StartConsuming
    \/ StopFlag
    \/ StopClose
    \/ JoinReturns
    \/ \E c \in Threads :
          \/ SetRunning(c)
          \/ RegisterConsumer(c)
          \/ BrokerDeliver(c)
          \/ ConsumeLoopExit(c)
          \/ ConsumeFinally(c)
          \/ Dispatch(c)
          \/ Observe(c)
          \/ CheckRunning(c)
          \/ ArchResolve(c)
          \/ ArchNackUnresolved(c)
          \/ ArchCallbackReturns(c)
          \/ Return(c)

SpecArch == Init /\ [][NextArch]_vars

\* ------------------------------------------------------- reading a record
Count(l, op) == Cardinality({i \in 1..Len(l) : l[i].op = op})

Has(l, op, out) == \E i \in 1..Len(l) : l[i].op = op /\ l[i].out = out

\* The basic_ack / basic_nack calls a handler issued, in order.
AckCalls(l) == SelectSeq(l, LAMBDA e : e.op \in {"basic_ack", "basic_nack"})

\* The recorded handler has ended (returned, or an exception left it).
Finished == obs # 0 /\ pc[obs] \in {"done", "finally"}

\* The task id of the delivery the recorded handler handles.
ObsTask == TaskIdOf(obs)

\* Copies of a body the broker holds: ready or delivered and unsettled.
Copies(b) == queue[b] + Cardinality({d \in unacked : d.body = b})

InCallback(c) == pc[c] \in {"cb1", "cb2"}

\* Callback invocations begun by the recorded handler.
Invocations ==
    Count(log, "callback") + (IF obs # 0 /\ InCallback(obs) THEN 1 ELSE 0)

FirstCallbackFailed == Has(log, "callback", "false") \/ Has(log, "callback", "raise")

\* ------------------------------------------------------------------ claims
\* C1: every delivery that on_message handed to the executor gets exactly one
\* acknowledgment call from its handler: basic_ack when the executor
\* returned true, basic_nack with requeue=True when it returned false, and
\* never neither of them.
C1_AckFollowsExecutor ==
    (Finished /\ Count(log, "callback") >= 1) =>
        /\ ExecutorResult(log) \in {"true", "false"}
        /\ Len(AckCalls(log)) = 1
        /\ ExecutorResult(log) = "true" => AckCalls(log)[1].op = "basic_ack"
        /\ ExecutorResult(log) = "false" =>
              /\ AckCalls(log)[1].op = "basic_nack"
              /\ AckCalls(log)[1].arg = "requeue"

\* C2: whenever an exception reaches the except clause of on_message, the
\* handler issues basic_nack with requeue=True for the delivery and, the
\* connection being open, the consumer goes on consuming.
C2_ExceptionIsNacked ==
    (Finished /\ Has(log, "except", "caught")) =>
        /\ Len(AckCalls(log)) >= 1
        /\ AckCalls(log)[Len(AckCalls(log))].op = "basic_nack"
        /\ AckCalls(log)[Len(AckCalls(log))].arg = "requeue"
        /\ conn = "open" => pc[obs] = "done"

\* C3: under any sequence of start_consuming, deliveries and
\* stop_consuming, at most one callback invocation is in progress and at
\* most one delivery is unacknowledged.
C3_NeverTwoInFlight ==
    /\ Cardinality({c \in Threads : InCallback(c)}) <= 1
    /\ Cardinality(unacked) <= 1

\* C4: a handler never resolves the task of an envelope whose delayUntil is
\* still in the future at that moment.
C4_FutureNeverResolved ==
    \A i \in 1..Len(log) : log[i].op = "get_task_details" => log[i].n = 0

\* C5: once the handler of a delivery whose delayUntil was in the future has
\* ended, it has republished the body exactly once, with the remaining delay
\* as annotation, has nacked the original without requeue, and the broker
\* holds exactly one copy of the message.
C5_OneRepublishOneCopy ==
    (Finished /\ Has(log, "decode", "future")) =>
        /\ Count(log, "basic_publish") = 1
        /\ \A i \in 1..Len(log) : log[i].op = "basic_publish" => log[i].n > 0
        /\ Len(AckCalls(log)) = 1
        /\ AckCalls(log)[1].arg = "drop"
        /\ Copies(cur[obs].body) = 1

\* C6: when get_task_details returns nothing, the handler issues
\* basic_nack with requeue=True and nothing else: no callback invocation, no
\* knowledge-base query, no apply_solution, and the ledger is as it was.
C6_UnresolvedIsRequeued ==
    (Finished /\ Has(log, "get_task_details", "none")) =>
        /\ Len(AckCalls(log)) = 1
        /\ AckCalls(log)[1].op = "basic_nack"
        /\ AckCalls(log)[1].arg = "requeue"
        /\ Invocations = 0
        /\ Count(log, "query") = 0
        /\ Count(log, "apply_solution") = 0
        /\ solution_attempts = seen

\* C6 witness: an unresolved delivery has been nacked and is ready in the
\* queue again.
C6_Witness ==
    /\ Finished
    /\ pc[obs] = "done"
    /\ Has(log, "get_task_details", "none")
    /\ Has(log, "basic_nack", "ok")
    /\ queue[cur[obs].body] > 0

\* C7: no exception leaves _execute_task_with_self_healing.
C7_ExecutorNeverRaises == ExecutorResult(log) # "raise"

\* C8: within one executor call the knowledge base is queried at most once
\* and the callback is invoked at most twice.
C8_HealingDepthOne ==
    /\ Count(log, "query") <= 1
    /\ Invocations <= 2

\* C9: when the first callback invocation failed, the knowledge base
\* returned a non-empty list and the second invocation returned true, the
\* executor returns true and the task's ledger entry has gained exactly one
\* attempt, for the first solution of the list.
C9_HealingSuccess ==
    (/\ Finished
     /\ FirstCallbackFailed
     /\ Has(log, "callback", "true")
     /\ \E i \in 1..Len(log) : log[i].op = "query" /\ log[i].n > 0) =>
        /\ ExecutorResult(log) = "true"
        /\ Len(solution_attempts[ObsTask]) = Len(seen[ObsTask]) + 1
        /\ solution_attempts[ObsTask][Len(solution_attempts[ObsTask])].solution_id
             = BestSolution(CHOOSE a \in KbAnswers : a # << >>)

\* C10: when the callback failed and the knowledge base returned only empty
\* lists, the executor returns false, apply_solution is not invoked, the
\* callback is not invoked again and the ledger is as it was.
C10_NoCandidates ==
    (/\ Finished
     /\ FirstCallbackFailed
     /\ \E i \in 1..Len(log) : log[i].op = "query" /\ log[i].out # "raise"
     /\ \A i \in 1..Len(log) : log[i].op = "query" => log[i].n = 0) =>
        /\ ExecutorResult(log) = "false"
        /\ Count(log, "apply_solution") = 0
        /\ Invocations = 1
        /\ solution_attempts = seen

\* C10 witness: the callback raised, the knowledge base answered with an
\* empty list, and the handler has nacked the delivery.
C10_Witness ==
    /\ Finished
    /\ Has(log, "callback", "raise")
    /\ Has(log, "query", "ok")
    /\ Count(log, "query") = 1
    /\ \A i \in 1..Len(log) : log[i].op = "query" => log[i].n = 0
    /\ Count(log, "apply_solution") = 0
    /\ ExecutorResult(log) = "false"
    /\ Has(log, "basic_nack", "ok")

\* C11: when apply_solution returned false for the selected candidate, the
\* executor returns false at once: the false return is the last thing it
\* did, and the callback was invoked only once.
C11_ApplyFailsNoRetry ==
    (Finished /\ Has(log, "apply_solution", "false")) =>
        /\ ExecutorResult(log) = "false"
        /\ Invocations = 1
        /\ \A i \in 1..Len(log) :
              (log[i].op = "apply_solution" /\ log[i].out = "false") =>
                  /\ i < Len(log)
                  /\ log[i + 1] = ExecutorEnd("false")

\* C11 witness: the callback raised, a candidate was found, apply_solution
\* returned false, and the handler has nacked the delivery with requeue.
C11_Witness ==
    /\ Finished
    /\ Has(log, "callback", "raise")
    /\ Has(log, "apply_solution", "false")
    /\ ExecutorResult(log) = "false"
    /\ Has(log, "basic_nack", "ok")

\* C12: within one executor call apply_solution is invoked at most once, and
\* only with the first element of the list the knowledge base returned.
C12_OnlyFirstCandidate ==
    /\ Count(log, "apply_solution") <= 1
    /\ \A i \in 1..Len(log) :
          log[i].op = "apply_solution" =>
              \E a \in KbAnswers : a # << >> /\ log[i].arg = BestSolution(a)

\* C13: a payload whose text json.loads rejects is decoded to a task id
\* equal to the whole text with no delay, and the handler goes straight on
\* to get_task_details with that id.
C13_BareIdFallback ==
    (obs # 0 /\ cur[obs].body.form = "text") =>
        /\ (Finished /\ Has(log, "deliver", "handled")) => Count(log, "decode") = 1
        /\ \A i \in 1..Len(log) :
              log[i].op = "decode" =>
                  /\ log[i].arg = cur[obs].body.taskId
                  /\ log[i].out = "due"
                  /\ i < Len(log)
                  /\ log[i + 1].op = "get_task_details"
                  /\ log[i + 1].arg = cur[obs].body.taskId
        /\ Count(log, "basic_publish") = 0

\* C13 witness: a bare-id delivery was resolved under its text, executed
\* successfully and acknowledged.
C13_Witness ==
    /\ Finished
    /\ cur[obs].body.form = "text"
    /\ Has(log, "decode", "due")
    /\ Has(log, "get_task_details", "task")
    /\ Has(log, "basic_ack", "ok")

\* C14: decoding a payload never raises: for every body, a JSON value that
\* is not a mapping included, it yields a task id and a delay or none.
C14_DecodeNeverRaises == ~Has(log, "decode", "raise")

\* C15: a stop_consuming call made after an earlier one has returned (no
\* start_consuming in between) finds no open connection to operate on and
\* does not wait on the consumer thread again, even when the first call
\* left that thread inside a callback.
C15_SecondStopReturnsAtOnce ==
    (stopped /\ mainPc \in {"stopping", "joining"}) =>
        /\ conn # "open"
        /\ ~(mainPc = "joining" /\ ConsumerThreadAlive /\ InCallback(started))

\* C16: a callback invocation that has begun ends only by a step of its own
\* thread, which returns or raises (no step of stop_consuming moves the
\* thread out of it), and every step of stop_consuming can be taken
\* whatever the consumer thread is doing: the join returns even while the
\* callback is still in progress.
C16_CooperativeCancellation ==
    /\ [](mainPc = "stopping" => ENABLED StopClose)
    /\ [](mainPc = "joining" => ENABLED JoinReturns)
    /\ [][\A c \in Threads :
            (InCallback(c) /\ pc'[c] # pc[c]) =>
                /\ UNCHANGED mainVars
                /\ pc'[c] \in {"cb2", "done", "finally"}]_vars

\* C16 witness: stop_consuming has returned (flag cleared, connection
\* closed, join timed out) while the consumer thread is still inside the
\* callback.
C16_Witness ==
    /\ stopped
    /\ mainPc = "idle"
    /\ ~running
    /\ conn = "closed"
    /\ ConsumerThreadAlive
    /\ InCallback(started)

\* The recorded handler's callback failed on every invocation, with no
\* candidate returned by the knowledge base or with a failed retry.
Unhealable ==
    /\ FirstCallbackFailed
    /\ ~Has(log, "callback", "true")
    /\ \/ /\ \E i \in 1..Len(log) : log[i].op = "query" /\ log[i].out # "raise"
          /\ \A i \in 1..Len(log) : log[i].op = "query" => log[i].n = 0
       \/ \E i \in 1..Len(log) :
             log[i].op = "callback" /\ log[i].arg = "second" /\ log[i].out # "true"

\* Messages the broker holds, ready or unacknowledged.
TotalCopies ==
    LET Sum[S \in SUBSET Payloads] ==
          IF S = {} THEN 0
          ELSE LET b == CHOOSE x \in S : TRUE IN Copies(b) + Sum[S \ {b}]
    IN  Sum[Payloads]

\* C17: on every delivery attempt of an unhealable delivery, the first as
\* well as a redelivery, the executor returns false and the handler issues
\* basic_nack with requeue=True and nothing else; the call fails only on a
\* closed connection, and the message stays with the broker (it is neither
\* acknowledged nor dropped).
C17_UnhealableIsRequeued ==
    (Finished /\ Unhealable) =>
        /\ ExecutorResult(log) = "false"
        /\ Len(AckCalls(log)) = 1
        /\ AckCalls(log)[1].op = "basic_nack"
        /\ AckCalls(log)[1].arg = "requeue"
        /\ AckCalls(log)[1].out = "ok" \/ conn # "open"
        /\ Copies(cur[obs].body) >= 1

\* C17 witness: the only message there is has been delivered a second time,
\* its callback failed again with no candidate solution, and it has been
\* nacked with requeue again and is ready in the queue.
C17_Witness ==
    /\ Finished
    /\ Unhealable
    /\ TotalCopies = 1
    /\ cur[obs].tag = 2
    /\ Has(log, "basic_nack", "ok")
    /\ queue[cur[obs].body] = 1

\* apply_solution calls in a record that ran the body of apply_solution.
Applied(l) == Cardinality({i \in 1..Len(l) : l[i].op = "apply_solution" /\ l[i].n = 1})

\* C18: the ledger changes only in an executor step that called
\* apply_solution, and then only by appending to one task's sequence one
\* attempt per call (solution id, its content, the time of the call): the
\* attempts already there stay as they are, the other tasks' sequences are
\* untouched, and every sequence is in chronological order.
C18_LedgerAppendOnly ==
    /\ [](\A t \in TaskIds : \A k \in 1..Len(solution_attempts[t]) - 1 :
            solution_attempts[t][k].timestamp <= solution_attempts[t][k + 1].timestamp)
    /\ [][/\ (obs # 0 /\ pc[obs] = "cb1" /\ pc'[obs] # "cb1") =>
               Len(solution_attempts'[ObsTask]) - Len(solution_attempts[ObsTask])
                   = Applied(log') - Applied(log)
          /\ solution_attempts' # solution_attempts =>
               /\ \E c \in Threads : pc[c] = "cb1" /\ pc'[c] # "cb1"
               /\ \E t \in TaskIds :
                     /\ \A u \in TaskIds \ {t} :
                           solution_attempts'[u] = solution_attempts[u]
                     /\ Len(solution_attempts'[t]) > Len(solution_attempts[t])
                     /\ SubSeq(solution_attempts'[t], 1, Len(solution_attempts[t]))
                           = solution_attempts[t]
                     /\ \A k \in Len(solution_attempts[t]) + 1
                                    .. Len(solution_attempts'[t]) :
                           /\ solution_attempts'[t][k].timestamp = now
                           /\ solution_attempts'[t][k].content
                                 = Content(solution_attempts'[t][k].solution_id)]_vars

\* C18 witness: the task's sequence holds two attempts made at different
\* times, the second one appended during a redelivery.
C18_Witness ==
    /\ obs # 0
    /\ cur[obs].tag = 2
    /\ Has(log, "apply_solution", "ok")
    /\ Len(solution_attempts["t1"]) = 2
    /\ Len(seen["t1"]) = 1
    /\ solution_attempts["t1"][1] = seen["t1"][1]
    /\ solution_attempts["t1"][1].timestamp < solution_attempts["t1"][2].timestamp

\* C19: no call of an HTTP wrapper ends by raising to its caller:
\* get_task_details, query_knowledge_base and report_error return, and so
\* does _report_solution_application inside apply_solution.
C19_WrappersNeverRaise ==
    \A i \in 1..Len(log) :
        log[i].op \in {"get_task_details", "query", "report_error", "apply_solution"}
            => log[i].out # "raise"

\* C20: after the callback raised, the text passed to query_knowledge_base
\* is the error message captured from that exception, the one report_error
\* was given, and not an error stored in the task.
C20_QueryUsesErrorMessage ==
    Has(log, "callback", "raise") =>
        \A i \in 1..Len(log) :
            log[i].op = "query" =>
                /\ log[i].arg \notin LastErrors \cup {"Unknown error"}
                /\ \E j \in 1..i - 1 :
                      log[j].op = "report_error" /\ log[j].arg = log[i].arg

\* C21: whenever the first callback invocation failed, by returning false
\* or by raising, report_error has been called before the knowledge base
\* is queried.
C21_ReportBeforeQuery ==
    FirstCallbackFailed =>
        \A i \in 1..Len(log) :
            log[i].op = "query" => \E j \in 1..i - 1 : log[j].op = "report_error"

\* C22: a report that fails does not change the healing flow: whatever the
\* outcome of report_error the knowledge base is queried next, and whatever
\* the outcome of the solution-applied report inside apply_solution the
\* callback is invoked again next.
C22_ReportingIsBestEffort ==
    \A i \in 1..Len(log) :
        /\ log[i].op = "report_error" =>
              /\ i < Len(log)
              /\ log[i + 1].op = "query"
        /\ (log[i].op = "apply_solution" /\ log[i].n = 1) =>
              IF i < Len(log)
                THEN log[i + 1].op = "callback" /\ log[i + 1].arg = "second"
                ELSE pc[obs] = "cb2"

\* C23: a handler that found the running flag false did nothing else: no
\* task resolution, no callback, no basic_ack or basic_nack, no change of
\* the ledger; its delivery stays unacknowledged while the connection is
\* open.
C23_SkippedWhenNotRunning ==
    (obs # 0 /\ Has(log, "deliver", "skipped")) =>
        /\ Len(log) = 1
        /\ pc[obs] = "done"
        /\ solution_attempts = seen
        /\ conn = "open" => \E d \in unacked : d.tag = cur[obs].tag

\* C23 witness: a handler returned at once because running was false, and
\* its delivery is still unacknowledged on the open connection.
C23_Witness ==
    /\ Finished
    /\ Has(log, "deliver", "skipped")
    /\ ~running
    /\ conn = "open"
    /\ \E d \in unacked : d.tag = cur[obs].tag

\* C24: the handler of a delivery whose delayUntil was found in the future
\* makes no task-store or knowledge-base call (get_task_details,
\* report_error, query_knowledge_base, apply_solution with its report),
\* invokes no callback and leaves the ledger as it was.
C24_DelayBranchHasNoSideEffects ==
    (obs # 0 /\ Has(log, "decode", "future")) =>
        /\ \A i \in 1..Len(log) :
              log[i].op \notin {"get_task_details", "report_error", "query",
                                "apply_solution", "callback"}
        /\ ~InCallback(obs)
        /\ solution_attempts = seen

\* C25: a delivery whose executor returned true has been acknowledged when
\* its handler ends, stop_consuming or not: the basic_ack call succeeded and
\* the broker holds no copy of the message to deliver again.
C25_SuccessIsAckedDuringShutdown ==
    (Finished /\ ExecutorResult(log) = "true") =>
        /\ Has(log, "basic_ack", "ok")
        /\ Copies(cur[obs].body) = 0

\* C26: from the return of stop_consuming until the next start_consuming
\* the running flag is false.
C26_NotRunningAfterStop ==
    (stopped /\ mainPc = "idle") => ~running

DelayReached == ~DelayInFuture(TRUE, DelayedBody.delayUntil, now)

\* C28: once the clock has reached delayUntil, the envelope that is ready
\* in the queue of a waiting consumer is delivered to on_message, and a
\* handler entered at such a time hands it to task resolution
\* (get_task_details is called) instead of republishing it.
C28_DueEnvelopeIsResolved ==
    \A c \in Threads :
        /\ (/\ DelayReached
            /\ queue[DelayedBody] > 0
            /\ unacked = {}
            /\ nextTag <= MaxDeliveries
            /\ conn = "open"
            /\ c \in consumers
            /\ pc[c] = "wait")
               ~> (pc[c] = "entered" /\ cur[c].body = DelayedBody /\ DelayReached)
        /\ (/\ DelayReached
            /\ pc[c] = "entered"
            /\ obs = c
            /\ cur[c].body = DelayedBody)
               ~> (/\ obs = c
                   /\ Count(log, "get_task_details") = 1
                   /\ Count(log, "basic_publish") = 0)

\* C28 witness: the envelope was republished while its delay was running,
\* delivered again after the clock had reached delayUntil, and handed to
\* task resolution by that second handler.
C28_Witness ==
    /\ obs # 0
    /\ cur[obs].body = DelayedBody
    /\ cur[obs].tag = 2
    /\ DelayReached
    /\ Has(log, "decode", "due")
    /\ Count(log, "get_task_details") = 1
    /\ Count(log, "basic_publish") = 0

\* C29: rabbitmq_connection is never unset and a closed connection is never
\* opened again, so the instance opens at most one connection; a
\* stop_consuming that follows a start_consuming returns with the
\* connection closed; and a consumer thread started on the closed
\* connection ends before any delivery reaches on_message or the callback.
C29_OneConnectionPerInstance ==
    [][/\ (conn # "none" => conn' # "none")
       /\ (conn = "closed" => conn' = "closed")
       /\ (mainPc = "joining" /\ mainPc' = "idle" /\ started > 0
              => conn' = "closed")
       /\ \A c \in Threads :
             (conn = "closed" /\ pc[c] \in {"start", "setup"})
                => /\ pc'[c] \in {"start", "setup", "dead"}
                   /\ cur'[c] = cur[c]
                   /\ c \notin consumers']_vars

\* C29 witness: stop_consuming closed the connection while the first
\* consumer thread was still in its loop, start_consuming was called again,
\* and the second consumer thread has ended although a message is ready in
\* the queue.
C29_Witness ==
    /\ started = 2
    /\ mainPc = "idle"
    /\ conn = "closed"
    /\ pc[1] = "wait"
    /\ pc[2] = "dead"
    /\ \E b \in Payloads : queue[b] > 0

\* C30: in ArchitectureRefactoringAgentSDK every delivery whose handler
\* found running true ends with exactly one acknowledgment call: basic_ack
\* if the callback returned true, basic_nack with requeue=True in every
\* other case; a payload that is not a JSON mapping never reaches the
\* callback.
C30_ExactlyOneAcknowledgment ==
    (Finished /\ Has(log, "deliver", "handled")) =>
        /\ Len(AckCalls(log)) = 1
        /\ IF Has(log, "callback", "true")
             THEN AckCalls(log)[1].op = "basic_ack"
             ELSE AckCalls(log)[1].op = "basic_nack" /\ AckCalls(log)[1].arg = "requeue"
        /\ cur[obs].body.form # "object" => Count(log, "callback") = 0

====
